---- MODULE Spec2Model ----
(***************************************************************************)
(* Model of the event-source crate: an EventSource owning a mutex-guarded  *)
(* pinned list of listener nodes, listener futures (EventFnFuture) that    *)
(* link their node on first poll and unlink it on drop, and an             *)
(* EventEmitter cursor that invokes the listeners' closures in place.      *)
(*                                                                         *)
(* Two listener node implementations exist in the sources:                 *)
(*   - src/src/lib.rs    ListenerItem, closure (event) -> Option<()>       *)
(*   - src/src/future.rs ListenerItem, closure (event, &mut ControlFlow)   *)
(* Both are dispatched by EventEmitter::emit_next of src/src/lib.rs.       *)
(***************************************************************************)
EXTENDS Naturals, Sequences, FiniteSets

(* ---------------------------- bounds ---------------------------------- *)
MaxHandles == 2
MaxEvent == 3
MaxWakers == 2
MaxProducers == 2
\* how often one closure invocation may call the same ControlFlow method
MaxCalls == 2

Handles == 1..MaxHandles
Events == 1..MaxEvent
Wakers == 1..MaxWakers
Producers == 1..MaxProducers

\* Option::None for wakers, results and the lock owner
None == 0

\* "opt":  EventSource::on of lib.rs, closure (event) -> Option<()>
\* "once": EventSource::once, the wrapper closure around (event) -> Option<R>
\* "flow": EventFnFuture of future.rs, closure (event, &mut ControlFlow)
Kinds == {"opt", "once", "flow"}

VARIABLES
    hstate,     \* handle -> "none" | "unreg" | "reg" | "resolved" (Ready returned,
                \*   not yet destroyed) | "cancelled" (destroyed while registered
                \*   and not finished) | "dropped" (destroyed otherwise)
    kind,       \* handle -> kind of its listener closure
    item,       \* handle -> ListenerItem {done, waker} of its node
    list,       \* PinList: sequence of the linked handles' nodes
    lock,       \* Mutex owner: None or the producer inside with_emitter
    cursor,     \* EventEmitter.cursor: index into list, Len(list)+1 = ghost
    ev,         \* the event the emit! loop of the current scope passes
    ret,        \* last result of emit_next in the current scope: "some", "none",
                \*   or "blocked" when the call never returns
    cf,         \* what the closure of the latest dispatch did with its ControlFlow
    res,        \* handle -> the `res` captured by the once wrapper
    output,     \* handle -> value the once future resolved with
    lastWaker,  \* handle -> waker its task supplied at its latest poll
    notified,   \* handle -> that waker has been woken since that poll
    \* observation (history) variables
    emitted,    \* events broadcast so far, in order of scope start
    order,      \* handles invoked in the current scope, in order
    obs,        \* handle -> events its closure was invoked with
    innerObs,   \* handle -> events the listener wrapped by once was called with
    someAt,     \* handle -> first event its listener answered Some / set_done
    stopped,    \* handles whose closure stopped propagation in the current scope
    anyStop,    \* some closure has called stop_propagation so far
    wakes,      \* handle -> number of times the emitter woke its waker
    regAt,      \* handle -> Len(emitted) when its node was linked
    regOrder    \* handles in the order of their first poll

vars == <<hstate, kind, item, list, lock, cursor, ev, ret, cf, res, output,
          lastWaker, notified, emitted, order, obs, innerObs, someAt, stopped,
          anyStop, wakes, regAt, regOrder>>

(* ------------------------- pure helpers ------------------------------- *)

\* variants of Unlink: the unlink is skipped / the front node is removed
UnlinkSkipped(s, h) == s

UnlinkFront(s, h) == IF s = <<>> THEN <<>> ELSE Tail(s)

\* pin_list: remove one node, keeping the others in order
RECURSIVE Unlink(_, _)
Unlink(s, h) ==
    IF s = <<>> THEN <<>>
    ELSE IF Head(s) = h THEN Tail(s)
    ELSE <<Head(s)>> \o Unlink(Tail(s), h)

\* variant of PushBack: the node is linked at the front
PushFront(s, h) == <<h>> \o s

\* pin_list: PinList::push_back
PushBack(s, h) == Append(s, h)

InList(s, h) == \E i \in 1..Len(s) : s[i] = h

\* ControlFlow::stop_propagation
stop_propagation(flow) ==
    IF flow.propagation THEN [flow EXCEPT !.propagation = FALSE] ELSE flow

\* variant of done that reads the other field
doneOtherField(flow) == flow.propagation

\* variant of set_done that flips the flag
set_doneFlip(flow) == [flow EXCEPT !.done = ~flow.done]

\* ControlFlow::set_done
set_done(flow) ==
    IF ~flow.done THEN [flow EXCEPT !.done = TRUE] ELSE flow

\* ControlFlow::done
done(flow) == flow.done

\* a listener closure (event, &mut ControlFlow) that calls stop_propagation
\* ns times and set_done nd times
RECURSIVE FlowClosure(_, _, _)
FlowClosure(flow, ns, nd) ==
    IF ns > 0 THEN FlowClosure(stop_propagation(flow), ns - 1, nd)
    ELSE IF nd > 0 THEN FlowClosure(set_done(flow), ns, nd - 1)
    ELSE flow

\* variant of OnceWrapper without the `res.is_some()` guard
OnceWrapperUnguarded(r, out) == [ret |-> out, res |-> out, called |-> TRUE]

\* what one invocation of such a closure on the node's ControlFlow shows:
\* the flag the ControlFlow was seeded with, what done() returns before any
\* call, after the stop_propagation calls and after the set_done calls, the
\* numbers of calls, and the ControlFlow the closure leaves
FlowTrace(flow, ns, nd) ==
    [on |-> TRUE, seed |-> flow.done,
     first |-> done(flow),
     mid |-> done(FlowClosure(flow, ns, 0)),
     last |-> done(FlowClosure(flow, ns, nd)),
     ns |-> ns, nd |-> nd,
     final |-> FlowClosure(flow, ns, nd)]

\* no closure taking a ControlFlow has been invoked
NoFlow ==
    [on |-> FALSE, seed |-> FALSE, first |-> FALSE, mid |-> FALSE,
     last |-> FALSE, ns |-> 0, nd |-> 0,
     final |-> [done |-> FALSE, propagation |-> TRUE]]

\* the closure EventSource::once passes to on, around a listener that
\* answers `out` (None or Some(out)) when it is called: [ret, res, called]
OnceWrapper(r, out) ==
    IF r # None THEN [ret |-> None, res |-> r, called |-> FALSE]
    ELSE [ret |-> out, res |-> out, called |-> TRUE]

\* variants of MutexAvailable: the mutex admits its owner again / excludes
\* nobody
MutexReentrant(who) == lock = None \/ (who # None /\ lock = who)

MutexAbsent(who) == TRUE

\* parking_lot Mutex::lock called by the thread `who` (a producer, or None
\* for a consumer task) returns only while nobody holds the mutex
MutexAvailable(who) == lock = None

\* Waker::will_wake
will_wake(a, b) == a = b

\* ListenerItem::update_waker: the match arm `Some(ref waker)` binds the
\* stored waker over the parameter, so the guard compares the stored waker
\* with itself
update_waker(it, w) ==
    IF it.waker # None /\ will_wake(it.waker, it.waker) THEN it
    ELSE [it EXCEPT !.waker = w]

\* ListenerItem::new
NewItem == [done |-> FALSE, waker |-> None]

\* ListenerItem::poll of future.rs: [item, ret, woke]
FlowPoll(it, ns, nd) ==
    LET flow == FlowClosure([done |-> it.done, propagation |-> TRUE], ns, nd)
        edge == flow.done /\ ~it.done
    IN  [item |-> IF edge THEN [done |-> TRUE, waker |-> None] ELSE it,
         ret  |-> flow.propagation,
         woke |-> IF edge /\ it.waker # None THEN it.waker ELSE None]

\* variant of OptPoll: done follows the latest answer of the closure
OptPollLatest(it, some) == [item |-> [it EXCEPT !.done = some], ret |-> some]

\* ListenerItem::poll of lib.rs, the closure having answered Some iff `some`:
\* [item, ret]
OptPoll(it, some) ==
    LET d == IF some /\ ~it.done THEN TRUE ELSE it.done
    IN  [item |-> [it EXCEPT !.done = d], ret |-> d]

\* the dispatch of one node of kind k by its ListenerItem::poll on event e;
\* the listener calls stop_propagation ns times and set_done nd times, or
\* answers Some iff nd > 0: [item, ret, woke, res, called]
NodePoll(k, it, e, r, ns, nd) ==
    IF k = "flow" THEN
        LET fp == FlowPoll(it, ns, nd)
        IN  [item |-> fp.item, ret |-> fp.ret, woke |-> fp.woke,
             res |-> r, called |-> FALSE]
    ELSE IF k = "once" THEN
        LET ow == OnceWrapper(r, IF nd > 0 THEN e ELSE None)
            op == OptPoll(it, ow.ret # None)
        IN  [item |-> op.item, ret |-> op.ret, woke |-> None,
             res |-> ow.res, called |-> ow.called]
    ELSE
        LET op == OptPoll(it, nd > 0)
        IN  [item |-> op.item, ret |-> op.ret, woke |-> None,
             res |-> r, called |-> FALSE]

\* EventEmitter::emit_next after node.poll returned b: [item, woke]
EmitWake(it, b) ==
    IF b /\ it.waker # None
    THEN [item |-> [it EXCEPT !.waker = None], woke |-> it.waker]
    ELSE [item |-> it, woke |-> None]

\* variant of MoveNext: the cursor stays where it is
MoveNextStay(c, b) == c

\* variant of MoveNext: the cursor moves two nodes on
MoveNextTwice(c, b) == c + 2

\* EventEmitter::emit_next: cursor.move_next() after a dispatch that returned b
MoveNext(c, b) == c + 1

\* EventEmitter::emit_next: its result after a dispatch that returned b
EmitResult(b) == "some"

\* number of wakers woken in one dispatch
WakeCount(w1, w2) == (IF w1 # None THEN 1 ELSE 0) + (IF w2 # None THEN 1 ELSE 0)

(* ----------------------------- Init ----------------------------------- *)

Init ==
    /\ hstate = [h \in Handles |-> "none"]
    /\ kind = [h \in Handles |-> "opt"]
    /\ item = [h \in Handles |-> NewItem]
    /\ list = <<>>
    /\ lock = None
    /\ cursor = 1
    /\ ev = None
    /\ ret = "none"
    /\ cf = NoFlow
    /\ res = [h \in Handles |-> None]
    /\ output = [h \in Handles |-> None]
    /\ lastWaker = [h \in Handles |-> None]
    /\ notified = [h \in Handles |-> FALSE]
    /\ emitted = <<>>
    /\ order = <<>>
    /\ obs = [h \in Handles |-> <<>>]
    /\ innerObs = [h \in Handles |-> <<>>]
    /\ someAt = [h \in Handles |-> None]
    /\ stopped = {}
    /\ anyStop = FALSE
    /\ wakes = [h \in Handles |-> 0]
    /\ regAt = [h \in Handles |-> 0]
    /\ regOrder = <<>>

(* ---------------------------- actions --------------------------------- *)

\* variant of On that links the node at creation
OnLinked(h, k) ==
    /\ hstate[h] = "none"
    /\ \A g \in Handles : g < h => hstate[g] # "none"
    /\ hstate' = [hstate EXCEPT ![h] = "unreg"]
    /\ kind' = [kind EXCEPT ![h] = k]
    /\ list' = PushBack(list, h)
    /\ UNCHANGED <<item, lock, cursor, ev, ret, cf, res, output, lastWaker,
                   notified, emitted, order, obs, innerObs, someAt, stopped,
                   anyStop, wakes, regAt, regOrder>>

\* EventSource::on / EventSource::once / EventFnFuture::new: a handle in the
\* Unregistered state; the list is not touched
On(h, k) ==
    /\ hstate[h] = "none"
    /\ \A g \in Handles : g < h => hstate[g] # "none"
    /\ hstate' = [hstate EXCEPT ![h] = "unreg"]
    /\ kind' = [kind EXCEPT ![h] = k]
    /\ UNCHANGED <<item, list, lock, cursor, ev, ret, cf, res, output, lastWaker,
                   notified, emitted, order, obs, innerObs, someAt, stopped,
                   anyStop, wakes, regAt, regOrder>>

\* EventFnFuture::poll with the waker w of the polling task (wakers are
\* interchangeable: the one of a handle's first poll is named 1)
Poll(h, w) ==
    /\ MutexAvailable(None)
    /\ hstate[h] \in {"unreg", "reg"}
    /\ hstate[h] = "unreg" => w = 1
    /\ LET first == hstate[h] = "unreg"
           it0 == IF first THEN NewItem ELSE item[h]
       IN  /\ list' = IF first THEN PushBack(list, h) ELSE list
           /\ regOrder' = IF first THEN Append(regOrder, h) ELSE regOrder
           /\ regAt' = IF first THEN [regAt EXCEPT ![h] = Len(emitted)] ELSE regAt
           /\ IF it0.done
              THEN /\ hstate' = [hstate EXCEPT ![h] = "resolved"]
                   /\ item' = [item EXCEPT ![h] = it0]
                   /\ output' = [output EXCEPT ![h] = res[h]]
                   /\ lastWaker' = [lastWaker EXCEPT ![h] = None]
              ELSE /\ hstate' = [hstate EXCEPT ![h] = "reg"]
                   /\ item' = [item EXCEPT ![h] = update_waker(it0, w)]
                   /\ output' = output
                   /\ lastWaker' = [lastWaker EXCEPT ![h] = w]
    /\ notified' = [notified EXCEPT ![h] = FALSE]
    /\ UNCHANGED <<kind, lock, cursor, ev, ret, cf, res, emitted, order, obs,
                   innerObs, someAt, stopped, anyStop, wakes>>

\* PinnedDrop of EventFnFuture: node.reset under the lock when initialized.
\* The future owns the closure and the node: both are released with it, so
\* the handle's closure state and observation log restart empty.
DropHandle(h) ==
    /\ hstate[h] \in {"unreg", "reg", "resolved"}
    /\ IF hstate[h] = "unreg"
       THEN list' = list
       ELSE /\ MutexAvailable(None)
            /\ list' = Unlink(list, h)
    /\ hstate' = [hstate EXCEPT ![h] =
            IF hstate[h] = "reg" /\ ~item[h].done THEN "cancelled" ELSE "dropped"]
    /\ kind' = [kind EXCEPT ![h] = "opt"]
    /\ item' = [item EXCEPT ![h] = NewItem]
    /\ res' = [res EXCEPT ![h] = None]
    /\ output' = [output EXCEPT ![h] = None]
    /\ lastWaker' = [lastWaker EXCEPT ![h] = None]
    /\ notified' = [notified EXCEPT ![h] = FALSE]
    /\ obs' = [obs EXCEPT ![h] = <<>>]
    /\ innerObs' = [innerObs EXCEPT ![h] = <<>>]
    /\ someAt' = [someAt EXCEPT ![h] = None]
    /\ wakes' = [wakes EXCEPT ![h] = 0]
    /\ regAt' = [regAt EXCEPT ![h] = 0]
    /\ UNCHANGED <<lock, cursor, ev, ret, cf, emitted, order, stopped, anyStop,
                   regOrder>>

\* the event of the next broadcast: the producers emit a shared, strictly
\* increasing counter
NextEvent == Len(emitted) + 1

\* EventSource::with_emitter entered by the emit! macro with event e
WithEmitter(p, e) ==
    /\ MutexAvailable(p)
    /\ e = NextEvent
    /\ lock' = p
    /\ cursor' = 1
    /\ ev' = e
    /\ ret' = "some"
    /\ cf' = NoFlow
    /\ emitted' = Append(emitted, e)
    /\ order' = <<>>
    /\ stopped' = {}
    /\ UNCHANGED <<hstate, kind, item, list, res, output, lastWaker, notified,
                   obs, innerObs, someAt, anyStop, wakes, regAt, regOrder>>

\* EventEmitter::emit_next, one iteration of the emit! loop; the listener it
\* invokes calls stop_propagation ns times and set_done nd times (a listener
\* returning an Option answers Some iff nd = 1)
EmitNext(p, ns, nd) ==
    /\ lock = p
    /\ ret = "some"
    /\ IF cursor > Len(list)
       THEN /\ ns = 0 /\ nd = 0
            /\ ret' = "none"
            /\ UNCHANGED <<item, cursor, cf, res, notified, order, obs,
                           innerObs, someAt, stopped, anyStop, wakes>>
       ELSE LET h == list[cursor]
                np == NodePoll(kind[h], item[h], ev, res[h], ns, nd)
                ew == EmitWake(np.item, np.ret)
            IN  /\ kind[h] # "flow" => (ns = 0 /\ nd <= 1)
                /\ item' = [item EXCEPT ![h] = ew.item]
                /\ res' = [res EXCEPT ![h] = np.res]
                /\ cursor' = MoveNext(cursor, np.ret)
                /\ ret' = EmitResult(np.ret)
                /\ cf' = IF kind[h] = "flow"
                         THEN FlowTrace([done |-> item[h].done,
                                         propagation |-> TRUE], ns, nd)
                         ELSE NoFlow
                /\ notified' = [notified EXCEPT ![h] =
                        @ \/ (lastWaker[h] # None
                              /\ lastWaker[h] \in {np.woke, ew.woke})]
                /\ wakes' = [wakes EXCEPT ![h] = @ + WakeCount(np.woke, ew.woke)]
                /\ order' = Append(order, h)
                /\ obs' = [obs EXCEPT ![h] = Append(@, ev)]
                /\ innerObs' = [innerObs EXCEPT ![h] =
                        IF np.called THEN Append(@, ev) ELSE @]
                /\ someAt' = [someAt EXCEPT ![h] =
                        IF @ = None /\ nd > 0
                           /\ (kind[h] = "once" => np.called)
                        THEN ev ELSE @]
                /\ stopped' = IF ns > 0 THEN stopped \cup {h} ELSE stopped
                /\ anyStop' = (anyStop \/ ns > 0)
    /\ UNCHANGED <<hstate, kind, list, lock, ev, output, lastWaker, emitted,
                   regAt, regOrder>>

\* the emit! loop ended: with_emitter returns, the EventEmitter is gone and
\* the MutexGuard is dropped
ScopeEnd(p) ==
    /\ lock = p
    /\ ret = "none"
    /\ lock' = None
    /\ cursor' = 1
    /\ ev' = None
    /\ cf' = NoFlow
    /\ order' = <<>>
    /\ stopped' = {}
    /\ UNCHANGED <<hstate, kind, item, list, ret, res, output, lastWaker,
                   notified, emitted, obs, innerObs, someAt, anyStop, wakes,
                   regAt, regOrder>>

Next ==
    \/ \E h \in Handles, k \in Kinds : On(h, k)
    \/ \E h \in Handles, w \in Wakers : Poll(h, w)
    \/ \E h \in Handles : DropHandle(h)
    \/ \E p \in Producers, e \in Events : WithEmitter(p, e)
    \/ \E p \in Producers, ns \in 0..MaxCalls, nd \in 0..MaxCalls : EmitNext(p, ns, nd)
    \/ \E p \in Producers : ScopeEnd(p)

Spec == Init /\ [][Next]_vars

\* the closure that emit_next is about to invoke calls back into the same
\* EventSource on the producer's thread: with_emitter (op = "emit"), a poll
\* of the linked handle h (op = "poll") or its drop (op = "drop").  Each
\* starts with self.list.lock() / source.list.lock(); when the mutex does
\* not admit the thread the call, and with it emit_next, never returns.
Reenter(p, op, h) ==
    /\ lock = p
    /\ ret = "some"
    /\ cursor <= Len(list)
    /\ IF op = "emit" THEN h = list[cursor] ELSE InList(list, h)
    /\ IF MutexAvailable(p)
       THEN /\ ret' = ret
            /\ cursor' = IF op = "emit" THEN 1 ELSE cursor
            /\ item' = IF op = "poll" /\ ~item[h].done
                       THEN [item EXCEPT ![h] = update_waker(item[h], 1)]
                       ELSE item
            /\ list' = IF op = "drop" THEN Unlink(list, h) ELSE list
            /\ hstate' = IF op = "drop"
                         THEN [hstate EXCEPT ![h] = "dropped"]
                         ELSE hstate
       ELSE /\ ret' = "blocked"
            /\ UNCHANGED <<hstate, item, list, cursor>>
    /\ UNCHANGED <<kind, lock, ev, cf, res, output, lastWaker, notified,
                   emitted, order, obs, innerObs, someAt, stopped, anyStop,
                   wakes, regAt, regOrder>>

ReentrantOps == {"emit", "poll", "drop"}

ReentrantNext ==
    \/ Next
    \/ \E p \in Producers, op \in ReentrantOps, h \in Handles : Reenter(p, op, h)

\* the program with listener closures that may call back into the source
ReentrantSpec == Init /\ [][ReentrantNext]_vars

\* the scheduler resumes the task of h once the waker the task supplied at its
\* latest poll has been woken
Resume(h) == notified[h] /\ \E w \in Wakers : Poll(h, w)

\* a producer inside with_emitter runs its emit! loop to the end
EmitStep ==
    \/ \E p \in Producers, ns \in 0..MaxCalls, nd \in 0..MaxCalls : EmitNext(p, ns, nd)
    \/ \E p \in Producers : ScopeEnd(p)

\* the emit! loop is straight-line code that runs on once entered, and a woken
\* task is resumed although other tasks take the lock again and again
FairSpec ==
    /\ Spec
    /\ WF_vars(EmitStep)
    /\ \A h \in Handles : SF_vars(Resume(h))

\* the program with every handle polled by one task only (waker 1) ...
EmitLoopNext ==
    \/ \E h \in Handles, k \in Kinds : On(h, k)
    \/ \E h \in Handles : Poll(h, 1)
    \/ \E h \in Handles : DropHandle(h)
    \/ \E p \in Producers, e \in Events : WithEmitter(p, e)
    \/ EmitStep

\* ... and a producer thread that keeps running its emit! loop once entered
EmitLoopSpec == Init /\ [][EmitLoopNext]_vars /\ WF_vars(EmitStep)

(* ------------------------- the i32 scenario --------------------------- *)

\* Listener A (handle 1) registers first and stops propagation exactly on the
\* value 2; 1 is broadcast; listener B (handle 2) registers; 2 and 3 are
\* broadcast. Neither listener finishes and neither handle is destroyed; the
\* scheduler may poll the handles again at any time.
ScenarioInit ==
    /\ hstate = [h \in Handles |-> IF h <= 2 THEN "unreg" ELSE "none"]
    /\ kind = [h \in Handles |-> IF h <= 2 THEN "flow" ELSE "opt"]
    /\ item = [h \in Handles |-> NewItem]
    /\ list = <<>>
    /\ lock = None
    /\ cursor = 1
    /\ ev = None
    /\ ret = "none"
    /\ cf = NoFlow
    /\ res = [h \in Handles |-> None]
    /\ output = [h \in Handles |-> None]
    /\ lastWaker = [h \in Handles |-> None]
    /\ notified = [h \in Handles |-> FALSE]
    /\ emitted = <<>>
    /\ order = <<>>
    /\ obs = [h \in Handles |-> <<>>]
    /\ innerObs = [h \in Handles |-> <<>>]
    /\ someAt = [h \in Handles |-> None]
    /\ stopped = {}
    /\ anyStop = FALSE
    /\ wakes = [h \in Handles |-> 0]
    /\ regAt = [h \in Handles |-> 0]
    /\ regOrder = <<>>

ScenarioPollA == \E w \in Wakers : Poll(1, w)

ScenarioPollB ==
    /\ hstate[2] = "unreg" => emitted = <<1>>
    /\ \E w \in Wakers : Poll(2, w)

ScenarioEmit ==
    /\ hstate[1] = "reg"
    /\ NextEvent >= 2 => hstate[2] = "reg"
    /\ \E p \in Producers, e \in {1, 2, 3} : WithEmitter(p, e)

ScenarioEmitNext ==
    \E p \in Producers :
        IF cursor <= Len(list) /\ list[cursor] = 1 /\ ev = 2
        THEN EmitNext(p, 1, 0)
        ELSE EmitNext(p, 0, 0)

ScenarioNext ==
    \/ ScenarioPollA
    \/ ScenarioPollB
    \/ ScenarioEmit
    \/ ScenarioEmitNext
    \/ \E p \in Producers : ScopeEnd(p)

ScenarioSpec == ScenarioInit /\ [][ScenarioNext]_vars

(* ------------------------ derived notions ----------------------------- *)

\* the node of h is linked into the list
Linked(h) == hstate[h] \in {"reg", "resolved"}

\* h has been destroyed
Destroyed(h) == hstate[h] \in {"cancelled", "dropped"}

\* the linked handles in the order of their registration
LinkedReg == SelectSeq(regOrder, Linked)

\* the position of h in the list (0 when it is not linked)
Pos(h) == IF InList(list, h) THEN CHOOSE i \in 1..Len(list) : list[i] = h ELSE 0

\* the events broadcast since h registered that have reached the position of
\* h: all of them, but the one in flight while h has not been visited yet
Delivered(h) ==
    IF lock # None /\ ~InList(order, h)
    THEN SubSeq(emitted, regAt[h] + 1, Len(emitted) - 1)
    ELSE SubSeq(emitted, regAt[h] + 1, Len(emitted))

(* ------------------------------ C1 ------------------------------------ *)

\* C1 (FIFO delivery): as long as no listener has stopped propagation, the
\* listeners invoked in a broadcast are a prefix of the linked handles in
\* registration order (all of them once the loop has ended), and every
\* not-finished listener registered before the first broadcast has been invoked
\* with every broadcast event, in the order of the broadcasts.
C1_FifoDelivery ==
    ~anyStop =>
        /\ order = SubSeq(LinkedReg, 1, Len(order))
        /\ (lock # None /\ ret = "none") => order = LinkedReg
        /\ \A h \in Handles :
              (Linked(h) /\ regAt[h] = 0 /\ ~item[h].done) => obs[h] = Delivered(h)

C1_Witness ==
    /\ ~anyStop
    /\ lock # None /\ ret = "none"
    /\ Len(emitted) >= 2
    /\ Len(order) >= 2
    /\ \A i \in 1..Len(order) :
          /\ regAt[order[i]] = 0
          /\ ~item[order[i]].done
          /\ obs[order[i]] = emitted

(* ------------------------------ C3 ------------------------------------ *)

\* C3 as stated (auto-finish): a listener returning an Option is finished from
\* its first Some on, and the event of that Some is the last one its closure is
\* ever invoked with, also while its node is still linked.
C3_NeverInvokedAfterFinish ==
    \A h \in Handles :
        (Linked(h) /\ kind[h] \in {"opt", "once"} /\ someAt[h] # None) =>
            /\ item[h].done
            /\ obs[h][Len(obs[h])] = someAt[h]

\* C3 (amended): a listener returning an Option is finished exactly from its
\* first Some on and stays finished; while its node is linked its closure is
\* still invoked with every broadcast event, finished or not; once its handle is
\* destroyed the closure is never invoked again.
C3_AutoFinish ==
    \A h \in Handles :
        /\ (Linked(h) /\ kind[h] \in {"opt", "once"}) =>
              /\ item[h].done <=> someAt[h] # None
              /\ obs[h] = Delivered(h)
        /\ Destroyed(h) => obs[h] = <<>>

C3_Witness ==
    \E h \in Handles :
        /\ hstate[h] = "reg"
        /\ kind[h] = "opt"
        /\ item[h].done
        /\ someAt[h] # None
        /\ Len(obs[h]) >= 2
        /\ obs[h][Len(obs[h])] > someAt[h]

(* ------------------------------ C4 ------------------------------------ *)

\* C4 (once semantics): the result stored by a once handle is the one of the
\* first event for which the wrapped listener answered Some; the wrapped
\* listener is called with every event up to that one and with none after it;
\* and a resolved once handle yields exactly that result.
C4_OnceSemantics ==
    \A h \in Handles :
        (Linked(h) /\ kind[h] = "once") =>
            /\ res[h] = someAt[h]
            /\ res[h] = None => innerObs[h] = obs[h]
            /\ res[h] # None =>
                  /\ innerObs[h] # <<>>
                  /\ innerObs[h][Len(innerObs[h])] = res[h]
                  /\ innerObs[h] = SubSeq(obs[h], 1, Len(innerObs[h]))
            /\ hstate[h] = "resolved" => (output[h] # None /\ output[h] = someAt[h])

C4_Witness ==
    \E h \in Handles :
        /\ kind[h] = "once"
        /\ hstate[h] = "resolved"
        /\ output[h] # None
        /\ output[h] = someAt[h]
        /\ Len(obs[h]) >= Len(innerObs[h]) + 2

(* ------------------------------ C5 ------------------------------------ *)

\* C5 (cancellation safety): a handle destroyed while registered and not
\* finished is in no list and in no emitter's visit order, and its closure has
\* not been invoked since the destruction.
C5_CancellationSafety ==
    \A h \in Handles :
        hstate[h] = "cancelled" =>
            /\ ~InList(list, h)
            /\ ~InList(order, h)
            /\ obs[h] = <<>>

C5_Witness ==
    \E h \in Handles :
        /\ hstate[h] = "cancelled"
        /\ InList(regOrder, h)
        /\ lock # None
        /\ Len(emitted) >= 2
        /\ Len(order) >= 1

(* ------------------------------ C2 ------------------------------------ *)

\* C2 (selective stop): when a listener has stopped propagation in the broadcast
\* in progress, no listener registered after it is invoked for this event, and
\* every listener registered before it has been invoked for it.
C2_SelectiveStop ==
    \A h \in stopped :
        \A g \in Handles :
            InList(list, g) =>
                /\ Pos(g) > Pos(h) => ~InList(order, g)
                /\ Pos(g) < Pos(h) => InList(order, g)

(* ------------------------------ C6 ------------------------------------ *)

\* C6 (concrete scenario): once 1, 2 and 3 have been broadcast in the scenario,
\* A has observed exactly 1, 2, 3 and B exactly 3.
C6_Scenario ==
    (emitted = <<1, 2, 3>> /\ lock = None) =>
        /\ obs[1] = <<1, 2, 3>>
        /\ obs[2] = <<3>>

(* ------------------------------ C7 ------------------------------------ *)

\* C7 (concurrency stress): under any interleaving of producers, registrations
\* and cancellations the list holds exactly the registered, not destroyed
\* handles, each once and in registration order; the emitter has visited each
\* node before its cursor exactly once; and, no listener having stopped
\* propagation, every linked not-finished listener has been invoked exactly
\* once for each broadcast since it registered.
C7_StressConsistency ==
    /\ list = LinkedReg
    /\ \A i, j \in 1..Len(list) : list[i] = list[j] => i = j
    /\ lock # None =>
          /\ Len(order) = cursor - 1
          /\ \A i \in 1..Len(order) : i <= Len(list) /\ order[i] = list[i]
    /\ ~anyStop =>
          \A h \in Handles :
              (Linked(h) /\ ~item[h].done) => obs[h] = Delivered(h)

C7_Witness ==
    /\ lock = 2
    /\ ~anyStop
    /\ \E h \in Handles : hstate[h] = "cancelled"
    /\ \E h \in Handles :
          /\ hstate[h] = "reg"
          /\ ~item[h].done
          /\ regAt[h] >= 1
          /\ Len(obs[h]) >= 2

(* ------------------------------ C8 ------------------------------------ *)

\* C8 (edge-triggered wake): the emitter has woken the waker of a linked node
\* exactly once if the node is finished and never if it is not.
C8_EdgeTriggeredWake ==
    \A h \in Handles :
        Linked(h) => wakes[h] = (IF item[h].done THEN 1 ELSE 0)

(* ------------------------------ C9 ------------------------------------ *)

\* C9 (eventual resolution): under the fair scheduler every registered handle
\* whose node an emitter has marked finished is eventually resumed (and so
\* resolves) or destroyed.
C9_EventualResolution ==
    \A h \in Handles :
        (hstate[h] = "reg" /\ item[h].done) ~> (hstate[h] # "reg")

(* ------------------------------ C10 ----------------------------------- *)

\* the sequence s without h, the others in their order
Without(s, h) == SelectSeq(s, LAMBDA g : g # h)

\* C10 (destruction): the destruction of a handle, in whatever state, leaves in
\* the list exactly the other nodes in their order, and leaves the list as it
\* was when the handle was never resumed.
C10_DropConsistent ==
    [][\A h \in Handles :
          (~Destroyed(h) /\ Destroyed(h)') =>
              /\ list' = Without(list, h)
              /\ hstate[h] = "unreg" => list' = list
              /\ \A g \in Handles \ {h} : hstate'[g] = hstate[g] /\ item'[g] = item[g]]_vars

C10_Witness ==
    /\ Len(regOrder) = 2
    /\ Destroyed(regOrder[2])
    /\ list = <<regOrder[1]>>
    /\ \E h \in Handles : hstate[h] = "resolved"

\* C11 (lazy registration): a handle that on() created and nobody resumed
\* is in no list and was invoked for no event; on() itself leaves the list
\* alone; and the list holds the linked handles in the order of their first
\* resumptions, whatever the order of the on() calls.
C11_LazyRegistration ==
    /\ \A h \in Handles :
          hstate[h] = "unreg" =>
              /\ ~InList(list, h)
              /\ ~InList(order, h)
              /\ ~InList(regOrder, h)
              /\ obs[h] = <<>>
    /\ list = LinkedReg
    /\ \A i, j \in 1..Len(order) :
          i < j => Pos(order[i]) < Pos(order[j])

\* handle 2, created after handle 1, was resumed first and is invoked first;
\* both have received an event
C11_Witness ==
    /\ list = <<2, 1>>
    /\ order = <<2, 1>>
    /\ obs[1] # <<>>
    /\ obs[2] # <<>>

\* C12 (reentrancy hazard): when the closure invoked by emit_next calls
\* with_emitter, or polls or drops a linked handle, on the same EventSource,
\* the inner call changes nothing and never returns: emit_next stays
\* blocked, the lock is never released, and the list, the nodes, the cursor
\* and the linked handles stay as they were, for ever.
C12_ReentrancyDeadlock ==
    [][/\ (\E p \in Producers, op \in ReentrantOps, h \in Handles :
              Reenter(p, op, h))
          => /\ ret' = "blocked"
             /\ UNCHANGED <<hstate, kind, item, list, lock, cursor, ev, cf,
                            res, output, emitted, order, obs, wakes>>
       /\ ret = "blocked"
          => /\ ret' = "blocked"
             /\ lock # None
             /\ UNCHANGED <<item, list, lock, cursor, ev, emitted, order,
                            obs, wakes, output>>
             /\ \A h \in Handles : Linked(h) => hstate'[h] = hstate[h]
      ]_vars

\* the closure of the second of two linked listeners called back while the
\* first had already been invoked; a handle waits to be polled
C12_Witness ==
    /\ ret = "blocked"
    /\ lock # None
    /\ Len(list) = 2
    /\ cursor = 2
    /\ \E h \in Handles : hstate[h] = "reg" /\ notified[h]

\* C13 as claimed (ControlFlow::done): at every point of one closure
\* invocation done() returns the flag the ControlFlow was seeded with, also
\* after set_done() was called in that invocation.
C13_DoneIsSeed ==
    cf.on => /\ cf.first = cf.seed
             /\ cf.mid = cf.seed
             /\ cf.last = cf.seed

\* C13 as the code has it: done() returns the seeded flag before any call
\* and after stop_propagation calls; once set_done() was called in the
\* invocation it returns true.
C13_DoneIsCurrent ==
    cf.on => /\ cf.first = cf.seed
             /\ cf.mid = cf.seed
             /\ cf.last = (cf.seed \/ cf.nd > 0)
             /\ cf.final.done = cf.last

\* a not yet finished listener called set_done and then read done()
C13_Witness ==
    /\ cf.on
    /\ ~cf.seed
    /\ cf.nd > 0
    /\ cf.last

\* at most one call
AtMostOnce(n) == IF n > 1 THEN 1 ELSE n

\* C14 (idempotence within one dispatch): when the closure of a dispatched
\* listener called stop_propagation ns times and set_done nd times, the
\* ControlFlow it leaves, the node (finished flag and waker), the number of
\* wakes, the result of emit_next and the cursor are those of calling each
\* at most once; set_done decides the finished flag alone and
\* stop_propagation the propagation flag alone.
C14_Idempotent ==
    [][(Len(order') = Len(order) + 1 /\ cf'.on)
       => LET h == list[cursor]
              ns == cf'.ns
              nd == cf'.nd
              seed == [done |-> item[h].done, propagation |-> TRUE]
              one == NodePoll("flow", item[h], ev, res[h], AtMostOnce(ns), AtMostOnce(nd))
              ew == EmitWake(one.item, one.ret)
          IN  /\ cf'.final = FlowClosure(seed, AtMostOnce(ns), AtMostOnce(nd))
              /\ item'[h] = ew.item
              /\ wakes'[h] = wakes[h] + WakeCount(one.woke, ew.woke)
              /\ ret' = EmitResult(one.ret)
              /\ cursor' = MoveNext(cursor, one.ret)
              /\ cf'.final.done = (item[h].done \/ nd > 0)
              /\ cf'.final.propagation = (ns = 0)
      ]_vars

\* a not yet finished listener called both methods twice in one invocation
C14_Witness ==
    /\ cf.on
    /\ ~cf.seed
    /\ cf.ns >= 2
    /\ cf.nd >= 2
    /\ cf.final = [done |-> TRUE, propagation |-> FALSE]

\* C15 (waker refresh): after every poll of a handle that leaves it
\* registered and not finished, the waker stored on the node is the one that
\* poll supplied, also when another one was stored before.
C15_WakerRefresh ==
    [][\A h \in Handles, w \in Wakers :
          (Poll(h, w) /\ hstate'[h] = "reg") => item'[h].waker = w
      ]_vars

\* C16 (emit_next result and cursor): with no node under the cursor
\* emit_next returns None and invokes no closure; when the invoked listener
\* called stop_propagation it returns None and the cursor stays on that
\* node, which remains linked; otherwise it invokes exactly one closure,
\* advances the cursor by one and returns Some(()).
C16_EmitNextResult ==
    [][\A p \in Producers, ns, nd \in 0..MaxCalls :
          EmitNext(p, ns, nd) =>
              IF cursor > Len(list)
              THEN ret' = "none" /\ obs' = obs /\ cursor' = cursor
              ELSE /\ Len(order') = Len(order) + 1
                   /\ list' = list
                   /\ IF ns > 0
                      THEN ret' = "none" /\ cursor' = cursor
                      ELSE ret' = "some" /\ cursor' = cursor + 1
      ]_vars

\* C17 (lock discipline, no dangling invocation): the lock passes only
\* between free and one holder; while a with_emitter scope holds it nothing
\* but the scope's own emit_next touches the list, the nodes or the cursor,
\* and emit_next touches the node under the cursor only; a closure is
\* invoked only on a handle that is linked before and after the step; a
\* destroyed handle is in no list and not under the cursor; and no linked
\* handle's destruction completes while a scope holds the lock.
C17_LockDiscipline ==
    [][/\ lock' # lock => (lock = None \/ lock' = None)
       /\ lock # None =>
             /\ list' = list
             /\ regOrder' = regOrder
             /\ \A h \in Handles :
                   /\ item'[h] # item[h] =>
                         (cursor <= Len(list) /\ h = list[cursor])
                   /\ Linked(h) => hstate'[h] \notin {"cancelled", "dropped"}
             /\ cursor' # cursor => (lock' = None \/ cursor' = cursor + 1)
       /\ \A h \in Handles :
             /\ obs'[h] # obs[h] /\ obs'[h] # <<>> =>
                   /\ lock # None
                   /\ Linked(h)
                   /\ hstate'[h] = hstate[h]
             /\ hstate'[h] \in {"cancelled", "dropped"} =>
                   /\ ~InList(list', h)
                   /\ ~InList(order', h)
                   /\ (lock' # None /\ cursor' <= Len(list')) => list'[cursor'] # h
      ]_vars

\* a scope has invoked the linked listener after another handle, once
\* registered, was destroyed
C17_Witness ==
    /\ lock # None
    /\ order # <<>>
    /\ Linked(order[1])
    /\ \E h \in Handles : Destroyed(h) /\ InList(regOrder, h)

\* C18 (emit-all termination): within one with_emitter scope the closures
\* invoked so far are the first nodes of the list, each once, so never more
\* than the list holds; and every scope that runs the emit! loop ends with
\* the lock released.
C18_EmitAllTerminates ==
    /\ [](lock # None =>
            /\ Len(order) <= Len(list)
            /\ cursor = Len(order) + 1
            /\ \A i, j \in 1..Len(order) : i # j => order[i] # order[j])
    /\ (lock # None) ~> (lock = None)

\* a scope has invoked both linked listeners, once each, and is about to
\* get None from emit_next
C18_Witness ==
    /\ lock # None
    /\ Len(list) = 2
    /\ Len(order) = 2
    /\ ret = "some"

\* the stage of a handle's life: 0 not created, 1 Unregistered,
\* 2 Registered and pending, 3 Registered and finished, 4 Detached
Stage(st, it) ==
    CASE st = "none" -> 0
      [] st = "unreg" -> 1
      [] st = "reg" /\ ~it.done -> 2
      [] st = "reg" /\ it.done -> 3
      [] st = "resolved" -> 3
      [] OTHER -> 4

\* C19 (handle state machine): a handle's stage never decreases; its node
\* is pushed once only; a linked node's finished flag never goes back from
\* true to false; a poll returns ready exactly when the node's finished
\* flag is true; and a poll leaves the lock released.
C19_HandleStateMachine ==
    [][/\ \A h \in Handles :
             /\ Stage(hstate'[h], item'[h]) >= Stage(hstate[h], item[h])
             /\ InList(regOrder, h) =>
                   Len(SelectSeq(regOrder', LAMBDA g : g = h)) = 1
             /\ Len(SelectSeq(list', LAMBDA g : g = h)) <= 1
             /\ (Linked(h) /\ item[h].done) =>
                   (item'[h].done \/ hstate'[h] \in {"cancelled", "dropped"})
       /\ \A h \in Handles, w \in Wakers :
             Poll(h, w) =>
                 /\ (hstate'[h] = "resolved") <=> item'[h].done
                 /\ hstate'[h] = "resolved" \/ hstate'[h] = "reg"
                 /\ InList(list', h)
                 /\ lock' = None
      ]_vars

\* one handle went through every stage and is detached, the other was
\* polled after its listener finished and returned ready
C19_Witness ==
    /\ hstate[1] = "dropped"
    /\ InList(regOrder, 1)
    /\ hstate[2] = "resolved"
    /\ item[2].done
    /\ list = <<2>>

\* C20 (fixed listener set per scope): while a with_emitter scope holds the
\* lock the list and the order of registrations do not change, no handle
\* registers and no linked handle resolves or is destroyed; hence a
\* listener is invoked only for events whose broadcast began after its
\* registration, never for the batch in flight when it tried to register.
C20_FixedListenerSet ==
    [][/\ (lock # None /\ lock' # None) =>
             /\ lock' = lock
             /\ list' = list
             /\ regOrder' = regOrder
             /\ \A h \in Handles :
                   /\ Linked(h) => hstate'[h] = hstate[h]
                   /\ ~Linked(h) => ~(hstate'[h] \in {"reg", "resolved"})
       /\ \A h \in Handles :
             /\ \A i \in 1..Len(obs'[h]) : obs'[h][i] > regAt'[h]
             /\ (hstate[h] = "unreg" /\ hstate'[h] = "reg") =>
                   /\ lock = None
                   /\ regAt'[h] = Len(emitted)
      ]_vars

\* a scope has invoked a listener while another handle, created and not yet
\* polled, waits for the lock to register
C20_Witness ==
    /\ lock # None
    /\ order # <<>>
    /\ ev = Len(emitted)
    /\ \E h \in Handles : hstate[h] = "unreg"

====
